---- MODULE Spec2Model ----
(***************************************************************************)
(* Sipapu: the client library of a shared listening session.  Every        *)
(* client process owns one Sipapu object (Session, Playlist and Song       *)
(* services sharing one Supabase client); all clients share the Record     *)
(* Store (Supabase tables session, playlist, song) and the Relay (Tawa).   *)
(* An async method is a sequence of steps, one per await; steps of         *)
(* different clients interleave.                                           *)
(***************************************************************************)
EXTENDS Naturals, Sequences, FiniteSets, TLC

VARIABLES
  session,        \* table session: id -> row, NoRow when there is none
  allocated,      \* the session ids new_session has handed out
  users,          \* table playlist, column users: playlist id -> list
  song,           \* table song: the rows ever inserted, in id order
  relay,          \* Relay: session id -> the events it received, in order
  sessionId,      \* client -> its Session.sessionId field
  pc,             \* client -> the call it is in and the await it is at
  result,         \* client -> how its last finished call returned
  inflight,       \* notifyEvent promises nobody awaits (started by claim)
  failedPublish,  \* client -> number of its last call whose POST failed
  budget,         \* calls that may still be started
  faults,         \* store and relay failures that may still happen
  stream,         \* client -> the EventSource its watch opened
  observed        \* client -> the events its watch callback was handed

vars == <<session, allocated, users, song, relay, sessionId, pc, result,
          inflight, failedPublish, budget, faults, stream, observed>>

store == <<session, users, song>>

(***************************************************************************)
(* Bounds of the model.                                                    *)
(***************************************************************************)
MaxCalls == 3
MaxCallsAll == 2
MaxFaults == 1
MaxSongs == 2

(***************************************************************************)
(* The values the model ranges over.                                       *)
(***************************************************************************)
Clients == {"c1", "c2"}
Users == {"u1", "u2"}
SessionIds == {"s1", "s2"}
PlaylistIds == {"p1", "p2"}

\* the ids new_session can hand out; the other ids name no session
AllocatableIds == {"s1"}

\* the session id and the playlist the calls of the lifecycle model name:
\* the id names no session before new and after remove
Targets == {"s1"}
ClaimPlaylists == {"p1"}
PlatformIds == {"x"}

\* the playlists songs and contributors are added to
SongPlaylists == {"p1"}

\* no EventSource: watch was not called, or its handle was invoked
NoStream == [open |-> FALSE]

Null == "null"
Undefined == "undefined"
NoRow == [absent |-> TRUE]

\* this.client.auth.user()?.id of each client
AuthUser(c) == IF c = "c1" THEN "u1" ELSE "u2"

\* user_metadata.username of a user
Username(u) == IF u = "u1" THEN "name1" ELSE "name2"

EventTypes ==
  [ SESSION_CREATED          |-> "session_created",
    SESSION_REMOVED          |-> "session_removed",
    YOUTUBE_SONG_ADDED       |-> "youtube_song_added",
    SPOTIFY_SONG_ADDED       |-> "spotify_song_added",
    SONG_REMOVED             |-> "song_removed",
    NEW_USER                 |-> "new_user",
    PLAYLIST_FINISHED        |-> "playlist_finished",
    SESSION_SETTINGS_CHANGED |-> "SESSION_SETTINGS_CHANGED" ]

SongEnum == [ SPOTIFY |-> "spotify", YOUTUBE |-> "youtube" ]

EMPTY_EVENT_DATA == [error |-> FALSE]

DEFAULT_SETTINGS ==
  [ allowSpotify               |-> TRUE,
    allowYouTube               |-> TRUE,
    youtubeOnlyAudio           |-> FALSE,
    allowEvents                |-> TRUE,
    eventFrequency             |-> 10,
    allowedEvents              |-> <<"adtrad">>,
    randomWordList             |-> << >>,
    anyoneCanUsePlayerControls |-> TRUE,
    anyoneCanAddToQueue        |-> TRUE,
    anyoneCanSeeHistory        |-> TRUE,
    anyoneCanSeeQueue          |-> TRUE,
    anyoneCanSeePlaylist       |-> TRUE,
    algorithmUsed              |-> "modern" ]

\* a second SessionSettings value: only the host adds songs and controls
HostOnlySettings ==
  [ DEFAULT_SETTINGS EXCEPT !.anyoneCanUsePlayerControls = FALSE,
                            !.anyoneCanAddToQueue = FALSE ]

Settings == {DEFAULT_SETTINGS, HostOnlySettings}

(***************************************************************************)
(* Helpers on sequences.                                                   *)
(***************************************************************************)
Range(s) == {s[i] : i \in 1..Len(s)}

Count(s, x) == Cardinality({i \in 1..Len(s) : s[i] = x})

(***************************************************************************)
(* The session table and its stored procedures.                            *)
(***************************************************************************)
Exists(sid) == session[sid] # NoRow

Unclaimed(sid) == Exists(sid) /\ session[sid].user_id = Null

Active(sid) == Exists(sid) /\ session[sid].user_id # Null

Removed(sid) == sid \in allocated /\ ~Exists(sid)

\* the id the next new_session call hands out: ids are never reused
FreshId == IF "s1" \notin allocated THEN "s1" ELSE "s2"

CanAllocate == FreshId \in AllocatableIds \ allocated

\* the row new_session inserts: no host, no playlist
UnclaimedRow ==
  [user_id |-> Null, playlist |-> Null, currently_playing |-> Null,
   settings |-> Null]

\* what claim_session answers
claim_session_error(sid) ==
  IF ~Exists(sid) THEN "NotFound"
  ELSE IF session[sid].user_id # Null THEN "InvalidTransition"
  ELSE "null"

\* the row claim_session writes
claim_session_row(sid, uid, pid, st) ==
  [session[sid] EXCEPT !.user_id = uid, !.playlist = pid, !.settings = st]

\* the list add_user_to_playlist leaves in a playlist row: one atomic,
\* deduplicating append
add_user_to_playlist(list, uid) ==
  IF uid \in Range(list) THEN list ELSE Append(list, uid)

(***************************************************************************)
(* Calls and their results.                                                *)
(***************************************************************************)
Idle == [op |-> "idle", at |-> "idle", published |-> 0]

NoResult == [n |-> 0, op |-> "none", outcome |-> "none", published |-> 0]

IsIdle(c) == pc[c].op = "idle"

CanStart(c) == IsIdle(c) /\ budget > 0

\* the call of c that is running (or, when c is idle, will start next)
CallNo(c) == result[c].n + 1

\* the result of the call of c that ends now; published counts the events
\* the Relay took from the call while it ran
Return(c, call, outcome, published) ==
  [result EXCEPT ![c] = [n |-> CallNo(c), op |-> call.op, call |-> call,
                         outcome |-> outcome, published |-> published]]

\* the answers of a store or relay request: it is served, or (while failures
\* may still happen) it fails
Served == IF faults > 0 THEN BOOLEAN ELSE {TRUE}

Spent(ok) == faults' = IF ok THEN faults ELSE faults - 1

(***************************************************************************)
(* Session.notifyEvent: POST /input/{sessionId}.  The event data goes      *)
(* through JSON.stringify before the body does.                            *)
(***************************************************************************)
Stringify(eventData) == [json |-> eventData]

Body(sid, eventType, eventData) ==
  [session |-> sid, eventType |-> eventType, data |-> Stringify(eventData)]

Received(sid, eventType, eventData) ==
  [relay EXCEPT ![sid] = Append(@, Body(sid, eventType, eventData))]

\* the awaited notifyEvent that ends a call: the Relay takes the event and
\* the call returns, or fetch rejects and the call throws
notifyEvent(c, sid, eventType, eventData) ==
  \E delivered \in Served :
    /\ Spent(delivered)
    /\ relay' = IF delivered THEN Received(sid, eventType, eventData)
                ELSE relay
    /\ result' = IF delivered
                 THEN Return(c, pc[c].call, "ok", pc[c].published + 1)
                 ELSE Return(c, pc[c].call, "RelayUnavailable",
                             pc[c].published)
    /\ failedPublish' = IF delivered THEN failedPublish
                        ELSE [failedPublish EXCEPT ![c] = CallNo(c)]
    /\ pc' = [pc EXCEPT ![c] = Idle]

\* the awaited notifyEvent in the middle of a call, which goes on at `at`
notifyThen(c, sid, eventType, eventData, at) ==
  \E delivered \in Served :
    /\ Spent(delivered)
    /\ IF delivered
       THEN /\ relay' = Received(sid, eventType, eventData)
            /\ pc' = [pc EXCEPT ![c].at = at, ![c].published = @ + 1]
            /\ UNCHANGED <<result, failedPublish>>
       ELSE /\ result' = Return(c, pc[c].call, "RelayUnavailable",
                                pc[c].published)
            /\ failedPublish' = [failedPublish EXCEPT ![c] = CallNo(c)]
            /\ pc' = [pc EXCEPT ![c] = Idle]
            /\ UNCHANGED relay

\* a call ends by throwing
Throw(c, call, outcome) ==
  /\ result' = Return(c, call, outcome, pc[c].published)
  /\ pc' = [pc EXCEPT ![c] = Idle]
  /\ UNCHANGED <<relay, failedPublish>>

\* a call moves on to its next await
Goto(c, call, at, locals) ==
  /\ pc' = [pc EXCEPT ![c] = [op |-> call.op, at |-> at, call |-> call,
                              locals |-> locals,
                              published |-> pc[c].published]]
  /\ UNCHANGED <<result, relay, failedPublish>>

(***************************************************************************)
(* Session.setSessionId                                                    *)
(***************************************************************************)
setSessionId(c, sid) ==
  /\ CanStart(c)
  /\ sessionId[c] # sid
  /\ sessionId' = [sessionId EXCEPT ![c] = sid]
  /\ budget' = budget - 1
  /\ UNCHANGED <<store, allocated, relay, pc, result, inflight,
                 failedPublish, faults>>
  /\ UNCHANGED <<stream, observed>>

(***************************************************************************)
(* Session.new                                                             *)
(***************************************************************************)
\* the values a call hands back: a string, or the rows a request answered
Str(v) == [type |-> "string", value |-> v]

Rows(rows) == [type |-> "array", rows |-> rows]

\* what new returns: `data as unknown as string`, the answer of the rpc
new_returns(data) == data

new(c) ==
  /\ CanStart(c)
  /\ CanAllocate
  /\ budget' = budget - 1
  /\ \E answer \in {"row"} \cup (IF faults > 0 THEN {"empty", "error"}
                                 ELSE {}) :
       LET call == [op |-> "new", sid |-> FreshId] IN
       /\ Spent(answer = "row")
       /\ IF answer = "row"
          THEN /\ session' = [session EXCEPT ![FreshId] = UnclaimedRow]
               /\ allocated' = allocated \cup {FreshId}
               /\ Goto(c, call, "notify",
                       [id |-> FreshId, data |-> Rows(<<[id |-> FreshId]>>)])
          ELSE /\ Throw(c, call, IF answer = "error" THEN "StoreError"
                                 ELSE "NotCreated")
               /\ UNCHANGED <<session, allocated>>
  /\ UNCHANGED <<users, song, sessionId, inflight>>
  /\ UNCHANGED <<stream, observed>>

new_notify(c) ==
  /\ pc[c].op = "new" /\ pc[c].at = "notify"
  /\ notifyEvent(c, pc[c].locals.id, EventTypes.SESSION_CREATED,
                 EMPTY_EVENT_DATA)
  /\ UNCHANGED <<store, allocated, sessionId, inflight, budget>>
  /\ UNCHANGED <<stream, observed>>

(***************************************************************************)
(* Session.claim: the notifyEvent it starts is not awaited.                *)
(***************************************************************************)
\* claim without its test of the error claim_session answers
claim_unchecked(c, pid, sid, st) ==
  /\ CanStart(c)
  /\ budget' = budget - 1
  /\ LET call == [op |-> "claim", sid |-> sid, playlistId |-> pid,
                  settings |-> st]
     IN
     /\ session' = IF claim_session_error(sid) = "null"
                   THEN [session EXCEPT
                           ![sid] = claim_session_row(sid, AuthUser(c),
                                                      pid, st)]
                   ELSE session
     /\ sessionId' = [sessionId EXCEPT ![c] = sid]
     /\ inflight' = inflight \cup
          {[client |-> c, n |-> CallNo(c), sid |-> sid,
            eventType |-> EventTypes.SESSION_CREATED,
            eventData |-> [settings |-> st]]}
     /\ result' = Return(c, call, "ok", 0)
  /\ UNCHANGED <<allocated, users, song, relay, pc, failedPublish, faults>>
  /\ UNCHANGED <<stream, observed>>

claim(c, pid, sid, st) ==
  /\ CanStart(c)
  /\ budget' = budget - 1
  /\ \E reachable \in Served :
       LET call  == [op |-> "claim", sid |-> sid, playlistId |-> pid,
                     settings |-> st]
           error == IF reachable THEN claim_session_error(sid)
                    ELSE "StoreError"
       IN
       /\ Spent(reachable)
       /\ IF error # "null"
          THEN /\ result' = Return(c, call, error, 0)
               /\ UNCHANGED <<session, sessionId, inflight>>
          ELSE /\ session' = [session EXCEPT
                                ![sid] = claim_session_row(sid, AuthUser(c),
                                                           pid, st)]
               /\ sessionId' = [sessionId EXCEPT ![c] = sid]
               /\ inflight' = inflight \cup
                    {[client |-> c, n |-> CallNo(c), sid |-> sid,
                      eventType |-> EventTypes.SESSION_CREATED,
                      eventData |-> [settings |-> st]]}
               /\ result' = Return(c, call, "ok", 0)
  /\ UNCHANGED <<allocated, users, song, relay, pc, failedPublish>>
  /\ UNCHANGED <<stream, observed>>

\* the POST claim started settles: nobody hears of a rejection
claim_notify(p) ==
  /\ p \in inflight
  /\ inflight' = inflight \ {p}
  /\ \E delivered \in Served :
       /\ Spent(delivered)
       /\ IF delivered
          THEN /\ relay' = Received(p.sid, p.eventType, p.eventData)
               /\ UNCHANGED failedPublish
          ELSE /\ failedPublish' = [failedPublish EXCEPT ![p.client] = p.n]
               /\ UNCHANGED relay
  /\ UNCHANGED <<store, allocated, sessionId, pc, result, budget>>
  /\ UNCHANGED <<stream, observed>>

(***************************************************************************)
(* Session.get, as the calls below use it: the row, or NoRow for undefined *)
(***************************************************************************)
get(sid) == session[sid]

(***************************************************************************)
(* Session.join                                                            *)
(***************************************************************************)
join(c, sid) ==
  /\ CanStart(c)
  /\ budget' = budget - 1
  /\ \E reachable \in Served :
       LET call == [op |-> "join", sid |-> sid, user |-> AuthUser(c)] IN
       /\ Spent(reachable)
       /\ IF ~reachable THEN Throw(c, call, "StoreError")
          ELSE IF get(sid) = NoRow THEN Throw(c, call, "NotFound")
          ELSE Goto(c, call, "rpc", [playlistId |-> get(sid).playlist])
  /\ UNCHANGED <<store, allocated, sessionId, inflight>>
  /\ UNCHANGED <<stream, observed>>

\* the answers of rpc add_user_to_playlist: a playlist_id that names no
\* playlist row is refused or matches nothing
add_user_answers(pid) ==
  IF pid \in PlaylistIds THEN {"done"} \cup (IF faults > 0 THEN {"error"}
                                             ELSE {})
  ELSE {"nothing", "refused"}

\* join appending to the list it read instead of calling the procedure
join_rpc_push(c) ==
  /\ pc[c].op = "join" /\ pc[c].at = "rpc"
  /\ LET pid == pc[c].locals.playlistId IN
     /\ pid \in PlaylistIds
     /\ users' = [users EXCEPT ![pid] = Append(@, pc[c].call.user)]
     /\ Goto(c, pc[c].call, "notify", pc[c].locals)
  /\ UNCHANGED <<session, song, allocated, sessionId, inflight, budget,
                 faults>>
  /\ UNCHANGED <<stream, observed>>

join_rpc(c) ==
  /\ pc[c].op = "join" /\ pc[c].at = "rpc"
  /\ LET pid == pc[c].locals.playlistId IN
     \E answer \in add_user_answers(pid) :
       /\ Spent(answer # "error")
       /\ IF answer \in {"error", "refused"}
          THEN /\ Throw(c, pc[c].call, "StoreError")
               /\ UNCHANGED users
          ELSE /\ users' = IF answer = "done"
                           THEN [users EXCEPT ![pid] =
                                   add_user_to_playlist(@, pc[c].call.user)]
                           ELSE users
               /\ Goto(c, pc[c].call, "notify", pc[c].locals)
  /\ UNCHANGED <<session, song, allocated, sessionId, inflight, budget>>
  /\ UNCHANGED <<stream, observed>>

join_notify(c) ==
  /\ pc[c].op = "join" /\ pc[c].at = "notify"
  /\ notifyEvent(c, pc[c].call.sid, EventTypes.NEW_USER,
                 [error |-> FALSE, user |-> pc[c].call.user])
  /\ UNCHANGED <<store, allocated, sessionId, inflight, budget>>
  /\ UNCHANGED <<stream, observed>>

(***************************************************************************)
(* Session.remove: a delete that matches no row is no error.               *)
(***************************************************************************)
remove(c, sid) ==
  /\ CanStart(c)
  /\ budget' = budget - 1
  /\ \E reachable \in Served :
       LET call == [op |-> "remove", sid |-> sid] IN
       /\ Spent(reachable)
       /\ IF ~reachable
          THEN /\ Throw(c, call, "StoreError")
               /\ UNCHANGED session
          ELSE /\ session' = [session EXCEPT ![sid] = NoRow]
               /\ Goto(c, call, "notify", [matched |-> Exists(sid)])
  /\ UNCHANGED <<users, song, allocated, sessionId, inflight>>
  /\ UNCHANGED <<stream, observed>>

remove_notify(c) ==
  /\ pc[c].op = "remove" /\ pc[c].at = "notify"
  /\ notifyEvent(c, pc[c].call.sid, EventTypes.SESSION_REMOVED,
                 EMPTY_EVENT_DATA)
  /\ UNCHANGED <<store, allocated, sessionId, inflight, budget>>
  /\ UNCHANGED <<stream, observed>>

(***************************************************************************)
(* Session.updateSettings: an update that matches no row is no error.      *)
(***************************************************************************)
updateSettings(c, sid, st) ==
  /\ CanStart(c)
  /\ budget' = budget - 1
  /\ \E reachable \in Served :
       LET call == [op |-> "updateSettings", sid |-> sid, settings |-> st]
       IN
       /\ Spent(reachable)
       /\ IF ~reachable
          THEN /\ Throw(c, call, "StoreError")
               /\ UNCHANGED session
          ELSE /\ session' = IF Exists(sid)
                             THEN [session EXCEPT ![sid].settings = st]
                             ELSE session
               /\ Goto(c, call, "notify", [matched |-> Exists(sid)])
  /\ UNCHANGED <<users, song, allocated, sessionId, inflight>>
  /\ UNCHANGED <<stream, observed>>

\* updateSettings putting the default settings back when the event cannot
\* be published
updateSettings_notify_undo(c) ==
  /\ pc[c].op = "updateSettings" /\ pc[c].at = "notify"
  /\ notifyEvent(c, pc[c].call.sid, EventTypes.SESSION_SETTINGS_CHANGED,
                 pc[c].call.settings)
  /\ session' = IF result'[c].outcome = "RelayUnavailable"
                   /\ Exists(pc[c].call.sid)
                THEN [session EXCEPT
                        ![pc[c].call.sid].settings = DEFAULT_SETTINGS]
                ELSE session
  /\ UNCHANGED <<users, song, allocated, sessionId, inflight, budget>>
  /\ UNCHANGED <<stream, observed>>

updateSettings_notify(c) ==
  /\ pc[c].op = "updateSettings" /\ pc[c].at = "notify"
  /\ notifyEvent(c, pc[c].call.sid, EventTypes.SESSION_SETTINGS_CHANGED,
                 pc[c].call.settings)
  /\ UNCHANGED <<store, allocated, sessionId, inflight, budget>>
  /\ UNCHANGED <<stream, observed>>

(***************************************************************************)
(* Session.setUser: works on this.sessionId when that is set; the answer   *)
(* of its update is not looked at.                                         *)
(***************************************************************************)
setUser(c, user, sid) ==
  /\ CanStart(c)
  /\ budget' = budget - 1
  /\ \E reachable \in Served :
       LET id   == IF sessionId[c] # Undefined THEN sessionId[c] ELSE sid
           call == [op |-> "setUser", sid |-> id, user |-> user]
       IN
       /\ Spent(reachable)
       /\ IF ~reachable THEN Throw(c, call, "StoreError")
          ELSE IF get(id) = NoRow THEN Throw(c, call, "NotFound")
          ELSE Goto(c, call, "update", [id |-> id])
  /\ UNCHANGED <<store, allocated, sessionId, inflight>>
  /\ UNCHANGED <<stream, observed>>

setUser_update(c) ==
  /\ pc[c].op = "setUser" /\ pc[c].at = "update"
  /\ LET id == pc[c].call.sid IN
     \E reachable \in Served :
       /\ Spent(reachable)
       /\ session' = IF reachable /\ Exists(id)
                     THEN [session EXCEPT ![id].user_id = pc[c].call.user]
                     ELSE session
  /\ result' = Return(c, pc[c].call, "ok", 0)
  /\ pc' = [pc EXCEPT ![c] = Idle]
  /\ UNCHANGED <<users, song, allocated, relay, sessionId, inflight,
                 failedPublish, budget>>
  /\ UNCHANGED <<stream, observed>>

(***************************************************************************)
(* Session.getCurrentlyPlaying, getPlaylist and setCurrentlyPlaying: each  *)
(* uses Session.sessionId, when that is set, in place of the id passed.    *)
(***************************************************************************)
Effective(c, sid) == IF sessionId[c] # Undefined THEN sessionId[c] ELSE sid

\* the values passed as the currently playing song
CurrentSongs == {"song1"}

\* a call ends by returning a value
ReturnValue(c, call, value) ==
  /\ result' = [result EXCEPT
                  ![c] = [n |-> CallNo(c), op |-> call.op, call |-> call,
                          outcome |-> "ok", published |-> pc[c].published,
                          returned |-> value]]
  /\ pc' = [pc EXCEPT ![c] = Idle]
  /\ UNCHANGED <<relay, failedPublish>>

\* getCurrentlyPlaying without its test for undefined
getCurrentlyPlaying_unchecked(c, sid) ==
  /\ CanStart(c)
  /\ budget' = budget - 1
  /\ \E reachable \in Served :
       LET call == [op |-> "getCurrentlyPlaying", sid |-> sid]
           id   == Effective(c, sid)
       IN
       /\ Spent(reachable)
       /\ IF ~reachable THEN Throw(c, call, "StoreError")
          ELSE ReturnValue(c, call, IF get(id) = NoRow THEN Null
                                    ELSE get(id).currently_playing)
  /\ UNCHANGED <<store, allocated, sessionId, inflight, stream, observed>>

getCurrentlyPlaying(c, sid) ==
  /\ CanStart(c)
  /\ budget' = budget - 1
  /\ \E reachable \in Served :
       LET call == [op |-> "getCurrentlyPlaying", sid |-> sid]
           id   == Effective(c, sid)
       IN
       /\ Spent(reachable)
       /\ IF ~reachable THEN Throw(c, call, "StoreError")
          ELSE IF get(id) = NoRow THEN Throw(c, call, "NotFound")
          ELSE ReturnValue(c, call, get(id).currently_playing)
  /\ UNCHANGED <<store, allocated, sessionId, inflight, stream, observed>>

getPlaylist(c, sid) ==
  /\ CanStart(c)
  /\ budget' = budget - 1
  /\ \E reachable \in Served :
       LET call == [op |-> "getPlaylist", sid |-> sid]
           id   == Effective(c, sid)
       IN
       /\ Spent(reachable)
       /\ IF ~reachable THEN Throw(c, call, "StoreError")
          ELSE IF get(id) = NoRow THEN Throw(c, call, "NotFound")
          ELSE Goto(c, call, "Playlist.get",
                    [playlistId |-> get(id).playlist])
  /\ UNCHANGED <<store, allocated, sessionId, inflight, stream, observed>>

\* Playlist.get: 'Playlist not found' when the select returns no row
getPlaylist_get(c) ==
  /\ pc[c].op = "getPlaylist" /\ pc[c].at = "Playlist.get"
  /\ \E reachable \in Served :
       LET pid == pc[c].locals.playlistId IN
       /\ Spent(reachable)
       /\ IF ~reachable THEN Throw(c, pc[c].call, "StoreError")
          ELSE IF pid \notin PlaylistIds THEN Throw(c, pc[c].call, "NotFound")
          ELSE ReturnValue(c, pc[c].call, [id |-> pid, users |-> users[pid]])
  /\ UNCHANGED <<store, allocated, sessionId, inflight, budget, stream,
                 observed>>

\* setCurrentlyPlaying: an update that matches no row is no error; no event
setCurrentlyPlaying(c, sid, s) ==
  /\ CanStart(c)
  /\ budget' = budget - 1
  /\ \E reachable \in Served :
       LET call == [op |-> "setCurrentlyPlaying", sid |-> sid, song |-> s]
           id   == Effective(c, sid)
       IN
       /\ Spent(reachable)
       /\ IF ~reachable
          THEN /\ Throw(c, call, "StoreError")
               /\ UNCHANGED session
          ELSE /\ session' = IF Exists(id)
                             THEN [session EXCEPT
                                     ![id].currently_playing = s]
                             ELSE session
               /\ result' = Return(c, call, "ok", 0)
               /\ pc' = [pc EXCEPT ![c] = Idle]
               /\ UNCHANGED <<relay, failedPublish>>
  /\ UNCHANGED <<users, song, allocated, sessionId, inflight, stream,
                 observed>>

(***************************************************************************)
(* The song table: a row's id is its place in song; a deleted row leaves   *)
(* NoRow behind.                                                           *)
(***************************************************************************)
SongIds == 1..Len(song)

SongsOf(pid) == {i \in SongIds : song[i] # NoRow /\ song[i].playlist = pid}

\* the rows select().match({ platform_id, playlist }) returns
Matching(platformId, pid) ==
  {i \in SongsOf(pid) : song[i].platform_id = platformId}

YoutubeSongs ==
  [ songType : {SongEnum.YOUTUBE}, platformId : PlatformIds,
    addedBy : Users, playlistId : SongPlaylists, title : {"title"} ]

SpotifySongs ==
  [ songType : {SongEnum.SPOTIFY}, platformId : PlatformIds,
    addedBy : Users, playlistId : SongPlaylists, title : {"title"},
    artist : {"artist"}, cover : {"cover"}, length : {180},
    album : {"album"} ]

\* the row createYoutube and createSpotify insert
InsertedRow(s) ==
  [ play_count |-> 0, added_by |-> s.addedBy, song_type |-> s.songType,
    platform_id |-> s.platformId, playlist |-> s.playlistId,
    title |-> s.title ]

(***************************************************************************)
(* Playlist.addUser (the snapshot that calls add_user_to_playlist): the    *)
(* event goes to Session.sessionId, which is looked at after the append,   *)
(* and carries the type SESSION_REMOVED.                                   *)
(***************************************************************************)
\* the rpc and the sessionId test after it; a call of addUser itself, or
\* the first step of createYoutube and createSpotify.  appended keeps for
\* the rest of the call whether the rpc changed the list.
\* the procedure call replaced by a write of the one user
addUser_rpc_replace(c, call, pid, uid) ==
  \E reachable \in Served :
    /\ Spent(reachable)
    /\ IF ~reachable
       THEN /\ Throw(c, call, "StoreError")
            /\ UNCHANGED users
       ELSE /\ users' = [users EXCEPT ![pid] = <<uid>>]
            /\ IF sessionId[c] = Undefined
               THEN Throw(c, call, "SessionIdNotSet")
               ELSE Goto(c, call, "addUser_notify",
                         [sessionId |-> sessionId[c], user |-> uid,
                          appended |-> uid \notin Range(users[pid])])

addUser_rpc(c, call, pid, uid) ==
  \E reachable \in Served :
    /\ Spent(reachable)
    /\ IF ~reachable
       THEN /\ Throw(c, call, "StoreError")
            /\ UNCHANGED users
       ELSE /\ users' = [users EXCEPT ![pid] = add_user_to_playlist(@, uid)]
            /\ IF sessionId[c] = Undefined
               THEN Throw(c, call, "SessionIdNotSet")
               ELSE Goto(c, call, "addUser_notify",
                         [sessionId |-> sessionId[c], user |-> uid,
                          appended |-> uid \notin Range(users[pid])])

addUser(c, pid, uid) ==
  /\ CanStart(c)
  /\ budget' = budget - 1
  /\ addUser_rpc(c, [op |-> "addUser", playlistId |-> pid, user |-> uid],
                 pid, uid)
  /\ UNCHANGED <<session, song, allocated, sessionId, inflight>>
  /\ UNCHANGED <<stream, observed>>

addUser_notify(c) ==
  /\ pc[c].op = "addUser" /\ pc[c].at = "addUser_notify"
  /\ notifyEvent(c, pc[c].locals.sessionId, EventTypes.SESSION_REMOVED,
                 [error |-> FALSE, user |-> pc[c].locals.user])
  /\ UNCHANGED <<store, allocated, sessionId, inflight, budget>>
  /\ UNCHANGED <<stream, observed>>

(***************************************************************************)
(* Playlist.resetPlaylist: the same pattern, again with SESSION_REMOVED.   *)
(***************************************************************************)
\* a reset that looks at Session.sessionId before it writes
resetPlaylist_guarded(c, pid) ==
  /\ CanStart(c)
  /\ budget' = budget - 1
  /\ \E reachable \in Served :
       LET call == [op |-> "resetPlaylist", playlistId |-> pid] IN
       /\ Spent(reachable)
       /\ IF sessionId[c] = Undefined
          THEN /\ Throw(c, call, "SessionIdNotSet")
               /\ UNCHANGED song
          ELSE IF ~reachable
          THEN /\ Throw(c, call, "StoreError")
               /\ UNCHANGED song
          ELSE /\ song' = [i \in SongIds |->
                             IF i \in SongsOf(pid)
                             THEN [song[i] EXCEPT !.play_count = 0]
                             ELSE song[i]]
               /\ Goto(c, call, "notify", [sessionId |-> sessionId[c]])
  /\ UNCHANGED <<session, users, allocated, sessionId, inflight>>
  /\ UNCHANGED <<stream, observed>>

\* a reset that also clears the song the sessions of the playlist play
resetPlaylist_clears(c, pid) ==
  /\ CanStart(c)
  /\ budget' = budget - 1
  /\ \E reachable \in Served :
       LET call == [op |-> "resetPlaylist", playlistId |-> pid] IN
       /\ Spent(reachable)
       /\ IF ~reachable
          THEN /\ Throw(c, call, "StoreError")
               /\ UNCHANGED <<song, session>>
          ELSE /\ song' = [i \in SongIds |->
                             IF i \in SongsOf(pid)
                             THEN [song[i] EXCEPT !.play_count = 0]
                             ELSE song[i]]
               /\ session' = [sid \in SessionIds |->
                                IF Exists(sid) /\ session[sid].playlist = pid
                                THEN [session[sid] EXCEPT
                                        !.currently_playing = Null]
                                ELSE session[sid]]
               /\ IF sessionId[c] = Undefined
                  THEN Throw(c, call, "SessionIdNotSet")
                  ELSE Goto(c, call, "notify", [sessionId |-> sessionId[c]])
  /\ UNCHANGED <<users, allocated, sessionId, inflight>>
  /\ UNCHANGED <<stream, observed>>

resetPlaylist(c, pid) ==
  /\ CanStart(c)
  /\ budget' = budget - 1
  /\ \E reachable \in Served :
       LET call == [op |-> "resetPlaylist", playlistId |-> pid] IN
       /\ Spent(reachable)
       /\ IF ~reachable
          THEN /\ Throw(c, call, "StoreError")
               /\ UNCHANGED song
          ELSE /\ song' = [i \in SongIds |->
                             IF i \in SongsOf(pid)
                             THEN [song[i] EXCEPT !.play_count = 0]
                             ELSE song[i]]
               /\ IF sessionId[c] = Undefined
                  THEN Throw(c, call, "SessionIdNotSet")
                  ELSE Goto(c, call, "notify", [sessionId |-> sessionId[c]])
  /\ UNCHANGED <<session, users, allocated, sessionId, inflight>>
  /\ UNCHANGED <<stream, observed>>

resetPlaylist_notify(c) ==
  /\ pc[c].op = "resetPlaylist" /\ pc[c].at = "notify"
  /\ notifyEvent(c, pc[c].locals.sessionId, EventTypes.SESSION_REMOVED,
                 EMPTY_EVENT_DATA)
  /\ UNCHANGED <<store, allocated, sessionId, inflight, budget>>
  /\ UNCHANGED <<stream, observed>>

(***************************************************************************)
(* Song.createYoutube and Song.createSpotify: Playlist.addUser, then       *)
(* alreadyContains, then the insert, then the event.                       *)
(***************************************************************************)
\* a create that does not add the adder to the contributors
createSong_unlisted(c, s, sid) ==
  /\ CanStart(c)
  /\ budget' = budget - 1
  /\ \E reachable \in Served :
       LET call == [op |-> "createSong", song |-> s, sid |-> sid] IN
       /\ Spent(reachable)
       /\ IF ~reachable THEN Throw(c, call, "StoreError")
          ELSE IF sessionId[c] = Undefined
          THEN Throw(c, call, "SessionIdNotSet")
          ELSE Goto(c, call, "addUser_notify",
                    [sessionId |-> sessionId[c], user |-> s.addedBy,
                     appended |-> FALSE])
  /\ UNCHANGED <<store, allocated, sessionId, inflight>>
  /\ UNCHANGED <<stream, observed>>

createSong(c, s, sid) ==
  /\ CanStart(c)
  /\ budget' = budget - 1
  /\ addUser_rpc(c, [op |-> "createSong", song |-> s, sid |-> sid],
                 s.playlistId, s.addedBy)
  /\ UNCHANGED <<session, song, allocated, sessionId, inflight>>
  /\ UNCHANGED <<stream, observed>>

createYoutube(c, s, sid) == s \in YoutubeSongs /\ createSong(c, s, sid)

createSpotify(c, s, sid) == s \in SpotifySongs /\ createSong(c, s, sid)

createSong_addUser_notify(c) ==
  /\ pc[c].op = "createSong" /\ pc[c].at = "addUser_notify"
  /\ notifyThen(c, pc[c].locals.sessionId, EventTypes.SESSION_REMOVED,
                [error |-> FALSE, user |-> pc[c].locals.user], "contains")
  /\ UNCHANGED <<store, allocated, sessionId, inflight, budget>>
  /\ UNCHANGED <<stream, observed>>

\* alreadyContains answers false when its select fails
alreadyContains(platformId, pid, reachable) ==
  reachable /\ Matching(platformId, pid) # {}

createSong_alreadyContains(c) ==
  /\ pc[c].op = "createSong" /\ pc[c].at = "contains"
  /\ \E reachable \in Served :
       /\ Spent(reachable)
       /\ IF alreadyContains(pc[c].call.song.platformId,
                             pc[c].call.song.playlistId, reachable)
          THEN Throw(c, pc[c].call, "DuplicateSong")
          ELSE Goto(c, pc[c].call, "insert", pc[c].locals)
  /\ UNCHANGED <<store, allocated, sessionId, inflight, budget>>
  /\ UNCHANGED <<stream, observed>>

createSong_insert(c) ==
  /\ pc[c].op = "createSong" /\ pc[c].at = "insert"
  /\ Len(song) < MaxSongs
  /\ \E reachable \in Served :
       /\ Spent(reachable)
       /\ IF ~reachable
          THEN /\ Throw(c, pc[c].call, "StoreError")
               /\ UNCHANGED song
          ELSE /\ song' = Append(song, InsertedRow(pc[c].call.song))
               /\ Goto(c, pc[c].call, "notify", pc[c].locals)
  /\ UNCHANGED <<session, users, allocated, sessionId, inflight, budget>>
  /\ UNCHANGED <<stream, observed>>

\* the event of createYoutube at the end of both creates
createSong_notify_youtube(c) ==
  /\ pc[c].op = "createSong" /\ pc[c].at = "notify"
  /\ notifyEvent(c, pc[c].call.sid, EventTypes.YOUTUBE_SONG_ADDED,
                 [error |-> FALSE, song |-> pc[c].call.song])
  /\ UNCHANGED <<store, allocated, sessionId, inflight, budget>>
  /\ UNCHANGED <<stream, observed>>

createSong_notify(c) ==
  /\ pc[c].op = "createSong" /\ pc[c].at = "notify"
  /\ notifyEvent(c, pc[c].call.sid,
                 IF pc[c].call.song.songType = SongEnum.YOUTUBE
                 THEN EventTypes.YOUTUBE_SONG_ADDED
                 ELSE EventTypes.SPOTIFY_SONG_ADDED,
                 [error |-> FALSE, song |-> pc[c].call.song])
  /\ UNCHANGED <<store, allocated, sessionId, inflight, budget>>
  /\ UNCHANGED <<stream, observed>>

(***************************************************************************)
(* Song.delete: a delete that matches no row is no error.                  *)
(***************************************************************************)
delete(c, songId, sid) ==
  /\ CanStart(c)
  /\ budget' = budget - 1
  /\ \E reachable \in Served :
       LET call == [op |-> "delete", songId |-> songId, sid |-> sid] IN
       /\ Spent(reachable)
       /\ IF ~reachable
          THEN /\ Throw(c, call, "StoreError")
               /\ UNCHANGED song
          ELSE /\ song' = IF songId \in SongIds
                          THEN [song EXCEPT ![songId] = NoRow]
                          ELSE song
               /\ Goto(c, call, "notify", [matched |-> songId \in SongIds])
  /\ UNCHANGED <<session, users, allocated, sessionId, inflight>>
  /\ UNCHANGED <<stream, observed>>

delete_notify(c) ==
  /\ pc[c].op = "delete" /\ pc[c].at = "notify"
  /\ notifyEvent(c, pc[c].call.sid, EventTypes.SONG_REMOVED,
                 [error |-> FALSE, songId |-> pc[c].call.songId])
  /\ UNCHANGED <<store, allocated, sessionId, inflight, budget>>
  /\ UNCHANGED <<stream, observed>>

(***************************************************************************)
(* Playlist.addUser, the earlier snapshot: it reads the users column,      *)
(* appends in memory and writes the list back with an update that has no   *)
(* filter.  Array has no append in the language's library: the call throws *)
(* unless the runtime supplies one, and both outcomes are modelled.        *)
(***************************************************************************)
legacy_addUser(c, pid, username) ==
  /\ CanStart(c)
  /\ budget' = budget - 1
  /\ \E reachable \in Served :
       LET call == [op |-> "legacy_addUser", playlistId |-> pid,
                    user |-> username]
       IN
       /\ Spent(reachable)
       /\ IF ~reachable THEN Throw(c, call, "StoreError")
          ELSE Goto(c, call, "append", [users |-> users[pid]])
  /\ UNCHANGED <<store, allocated, sessionId, inflight>>
  /\ UNCHANGED <<stream, observed>>

legacy_addUser_append(c) ==
  /\ pc[c].op = "legacy_addUser" /\ pc[c].at = "append"
  /\ \E supplied \in BOOLEAN :
       IF supplied
       THEN Goto(c, pc[c].call, "update",
                 [newUsers |-> Append(pc[c].locals.users, pc[c].call.user)])
       ELSE Throw(c, pc[c].call, "TypeError")
  /\ UNCHANGED <<store, allocated, sessionId, inflight, budget, faults>>
  /\ UNCHANGED <<stream, observed>>

legacy_addUser_update(c) ==
  /\ pc[c].op = "legacy_addUser" /\ pc[c].at = "update"
  /\ \E reachable \in Served :
       /\ Spent(reachable)
       /\ IF ~reachable
          THEN /\ Throw(c, pc[c].call, "StoreError")
               /\ UNCHANGED users
          ELSE /\ users' = [pid \in PlaylistIds |-> pc[c].locals.newUsers]
               /\ result' = Return(c, pc[c].call, "ok", 0)
               /\ pc' = [pc EXCEPT ![c] = Idle]
               /\ UNCHANGED <<relay, failedPublish>>
  /\ UNCHANGED <<session, song, allocated, sessionId, inflight, budget>>
  /\ UNCHANGED <<stream, observed>>

(***************************************************************************)
(* Session.watch: an EventSource on the Relay's stream of a session.  The  *)
(* Relay sends, for every event it received after the stream was opened,   *)
(* one frame: the text of the body it was posted plus the date it assigns  *)
(* (here the event's place in the session's log).                          *)
(***************************************************************************)
Frame(sid, i) ==
  Stringify([session |-> relay[sid][i].session,
             eventType |-> relay[sid][i].eventType,
             data |-> relay[sid][i].data,
             date |-> i])

\* JSON.parse
Parse(text) == text.json

\* watch: Session.sessionId, when set, replaces the id passed.  It has no
\* await: it runs to its end whatever calls of the client are under way.
watch(c, sid) ==
  /\ ~stream[c].open
  /\ LET target == IF sessionId[c] # Undefined THEN sessionId[c] ELSE sid
     IN
     stream' = [stream EXCEPT ![c] = [open |-> TRUE, sid |-> target,
                                      next |-> Len(relay[target]) + 1]]
  /\ UNCHANGED <<store, allocated, relay, sessionId, pc, result, inflight,
                 failedPublish, budget, faults, observed>>

\* the listener that skips a frame and dispatches the newest one
message_latest(c) ==
  /\ stream[c].open
  /\ stream[c].next <= Len(relay[stream[c].sid])
  /\ observed' = [observed EXCEPT
                    ![c] = Append(@, Parse(Frame(stream[c].sid,
                                          Len(relay[stream[c].sid]))))]
  /\ stream' = [stream EXCEPT ![c].next = @ + 1]
  /\ UNCHANGED <<store, allocated, relay, sessionId, pc, result, inflight,
                 failedPublish, budget, faults>>

\* the listener that takes a frame without calling the callback
message_drop(c) ==
  /\ stream[c].open
  /\ stream[c].next <= Len(relay[stream[c].sid])
  /\ stream' = [stream EXCEPT ![c].next = @ + 1]
  /\ UNCHANGED <<store, allocated, relay, sessionId, pc, result, inflight,
                 failedPublish, budget, faults, observed>>

\* the listener of a stream that close() does not stop
message_closed(c) ==
  /\ stream[c] # NoStream
  /\ stream[c].next <= Len(relay[stream[c].sid])
  /\ observed' = [observed EXCEPT
                    ![c] = Append(@, Parse(Frame(stream[c].sid,
                                                 stream[c].next)))]
  /\ stream' = [stream EXCEPT ![c].next = @ + 1]
  /\ UNCHANGED <<store, allocated, relay, sessionId, pc, result, inflight,
                 failedPublish, budget, faults>>

\* the 'message' listener: it parses the frame and hands it to the callback
message(c) ==
  /\ stream[c].open
  /\ stream[c].next <= Len(relay[stream[c].sid])
  /\ observed' = [observed EXCEPT
                    ![c] = Append(@, Parse(Frame(stream[c].sid,
                                                 stream[c].next)))]
  /\ stream' = [stream EXCEPT ![c].next = @ + 1]
  /\ UNCHANGED <<store, allocated, relay, sessionId, pc, result, inflight,
                 failedPublish, budget, faults>>

\* the function watch returned, stream.close(): the client may call it any
\* number of times; on a closed EventSource it does nothing
close(c) ==
  /\ stream[c] # NoStream
  /\ stream' = [stream EXCEPT ![c].open = FALSE]
  /\ UNCHANGED <<store, allocated, relay, sessionId, pc, result, inflight,
                 failedPublish, budget, faults, observed>>

\* an event kind the library does not know
UnknownKind == "not_an_event_type"

\* a publisher that is not this library (the Relay takes events of every
\* client type) posts an event of a kind the library does not know
post(sid) ==
  /\ budget > 0
  /\ budget' = budget - 1
  /\ relay' = Received(sid, UnknownKind, EMPTY_EVENT_DATA)
  /\ UNCHANGED <<store, allocated, sessionId, pc, result, inflight,
                 failedPublish, faults, stream, observed>>

(***************************************************************************)
(* The session lifecycle: nothing but the playlists exists at first.       *)
(***************************************************************************)
Init ==
  /\ session = [sid \in SessionIds |-> NoRow]
  /\ allocated = {}
  /\ users = [pid \in PlaylistIds |-> <<Username("u1")>>]
  /\ song = << >>
  /\ relay = [sid \in SessionIds |-> << >>]
  /\ sessionId = [c \in Clients |-> Undefined]
  /\ pc = [c \in Clients |-> Idle]
  /\ result = [c \in Clients |-> NoResult]
  /\ inflight = {}
  /\ failedPublish = [c \in Clients |-> 0]
  /\ stream = [c \in Clients |-> NoStream]
  /\ observed = [c \in Clients |-> << >>]
  /\ budget = MaxCalls
  /\ faults = MaxFaults

Next ==
  \/ \E c \in Clients : new(c)
  \/ \E c \in Clients : new_notify(c)
  \/ \E c \in Clients, pid \in ClaimPlaylists, sid \in Targets,
        st \in Settings : claim(c, pid, sid, st)
  \/ \E p \in inflight : claim_notify(p)
  \/ \E c \in Clients, sid \in Targets : join(c, sid)
  \/ \E c \in Clients : join_rpc(c)
  \/ \E c \in Clients : join_notify(c)
  \/ \E c \in Clients, sid \in Targets : remove(c, sid)
  \/ \E c \in Clients : remove_notify(c)
  \/ \E c \in Clients, sid \in Targets, st \in Settings :
        updateSettings(c, sid, st)
  \/ \E c \in Clients : updateSettings_notify(c)
  \/ \E c \in Clients, u \in Users, sid \in Targets : setUser(c, u, sid)
  \/ \E c \in Clients : setUser_update(c)

Spec == Init /\ [][Next]_vars

(***************************************************************************)
(* Song.incrmentPlayCount and Song.resetSong.  The procedure               *)
(* increment_play_count adds one to the count of the row in one step.      *)
(***************************************************************************)
increment_play_count(rows, songId) ==
  [i \in 1..Len(rows) |->
     IF i = songId /\ rows[i] # NoRow
     THEN [rows[i] EXCEPT !.play_count = @ + 1]
     ELSE rows[i]]

\* the procedure call replaced by an update that writes the count 1
incrmentPlayCount_set(c, songId) ==
  /\ CanStart(c)
  /\ budget' = budget - 1
  /\ \E reachable \in Served :
       LET call == [op |-> "incrmentPlayCount", songId |-> songId] IN
       /\ Spent(reachable)
       /\ IF ~reachable
          THEN /\ Throw(c, call, "StoreError")
               /\ UNCHANGED song
          ELSE /\ song' = [i \in SongIds |->
                             IF i = songId /\ song[i] # NoRow
                             THEN [song[i] EXCEPT !.play_count = 1]
                             ELSE song[i]]
               /\ result' = Return(c, call, "ok", 0)
               /\ pc' = [pc EXCEPT ![c] = Idle]
               /\ UNCHANGED <<relay, failedPublish>>
  /\ UNCHANGED <<session, users, allocated, sessionId, inflight, stream,
                 observed>>

incrmentPlayCount(c, songId) ==
  /\ CanStart(c)
  /\ budget' = budget - 1
  /\ \E reachable \in Served :
       LET call == [op |-> "incrmentPlayCount", songId |-> songId] IN
       /\ Spent(reachable)
       /\ IF ~reachable
          THEN /\ Throw(c, call, "StoreError")
               /\ UNCHANGED song
          ELSE /\ song' = increment_play_count(song, songId)
               /\ result' = Return(c, call, "ok", 0)
               /\ pc' = [pc EXCEPT ![c] = Idle]
               /\ UNCHANGED <<relay, failedPublish>>
  /\ UNCHANGED <<session, users, allocated, sessionId, inflight, stream,
                 observed>>

resetSong(c, songId, pid) ==
  /\ CanStart(c)
  /\ budget' = budget - 1
  /\ \E reachable \in Served :
       LET call == [op |-> "resetSong", songId |-> songId,
                    playlistId |-> pid] IN
       /\ Spent(reachable)
       /\ IF ~reachable
          THEN /\ Throw(c, call, "StoreError")
               /\ UNCHANGED song
          ELSE /\ song' = [i \in SongIds |->
                             IF i = songId /\ i \in SongsOf(pid)
                             THEN [song[i] EXCEPT !.play_count = 0]
                             ELSE song[i]]
               /\ result' = Return(c, call, "ok", 0)
               /\ pc' = [pc EXCEPT ![c] = Idle]
               /\ UNCHANGED <<relay, failedPublish>>
  /\ UNCHANGED <<session, users, allocated, sessionId, inflight, stream,
                 observed>>

(***************************************************************************)
(* The choice of the next song.  Playlist.getSongsNotPlayedEnough gives    *)
(* the candidates; the selector picks among them by one of the             *)
(* QueueAlgorithms.  'random' and 'weighted-song' pick from the whole      *)
(* pool; 'classic' and 'modern' first pick a contributor, then one of that *)
(* contributor's candidates, and try another contributor when the one      *)
(* picked has none.  The weights decide how likely a pick is, not which    *)
(* picks are possible.                                                     *)
(***************************************************************************)
MAX_PLAYS == 3

QueueAlgorithms == {"classic", "modern", "random", "weighted-song"}

\* no filter at all
getSongsNotPlayedEnough_all(pid) == SongsOf(pid)

\* the filter with <= in place of <
getSongsNotPlayedEnough_inclusive(pid) ==
  {i \in SongsOf(pid) : song[i].play_count <= MAX_PLAYS}

getSongsNotPlayedEnough(pid) ==
  {i \in SongsOf(pid) : song[i].play_count < MAX_PLAYS}

\* the read of the candidates and of the contributors
selectNext(c, pid, strategy) ==
  /\ CanStart(c)
  /\ budget' = budget - 1
  /\ \E reachable \in Served :
       LET call  == [op |-> "selectNext", playlistId |-> pid,
                     strategy |-> strategy]
           cands == getSongsNotPlayedEnough(pid)
       IN
       /\ Spent(reachable)
       /\ IF ~reachable THEN Throw(c, call, "StoreError")
          ELSE IF cands = {} THEN Throw(c, call, "QueueExhausted")
          ELSE Goto(c, call, "pick",
                    [songs |-> [i \in cands |-> song[i]],
                     contributors |-> Range(users[pid]),
                     tried |-> {}])
  /\ UNCHANGED <<store, allocated, sessionId, inflight, stream, observed>>

\* one pick: a song, or a contributor without candidates
selectNext_pick(c) ==
  /\ pc[c].op = "selectNext" /\ pc[c].at = "pick"
  /\ LET l    == pc[c].locals
         call == pc[c].call
     IN
     IF call.strategy \in {"random", "weighted-song"}
     THEN \E i \in DOMAIN l.songs :
            ReturnValue(c, call, [song |-> i, tried |-> l.tried])
     ELSE \E u \in l.contributors \ l.tried :
            LET own == {i \in DOMAIN l.songs : l.songs[i].added_by = u} IN
            IF own = {}
            THEN Goto(c, call, "pick", [l EXCEPT !.tried = @ \cup {u}])
            ELSE \E i \in own :
                   ReturnValue(c, call, [song |-> i, tried |-> l.tried])
  /\ UNCHANGED <<store, allocated, sessionId, inflight, budget, faults,
                 stream, observed>>

(***************************************************************************)
(* The lifecycle with the calls that read a session and set its song.      *)
(***************************************************************************)
NextGet ==
  \/ \E c \in Clients : new(c)
  \/ \E c \in Clients : new_notify(c)
  \/ \E c \in Clients, pid \in ClaimPlaylists, sid \in Targets,
        st \in Settings : claim(c, pid, sid, st)
  \/ \E p \in inflight : claim_notify(p)
  \/ \E c \in Clients, sid \in Targets : remove(c, sid)
  \/ \E c \in Clients : remove_notify(c)
  \/ \E c \in Clients, sid \in SessionIds : setSessionId(c, sid)
  \/ \E c \in Clients, sid \in Targets, s \in CurrentSongs :
        setCurrentlyPlaying(c, sid, s)
  \/ \E c \in Clients, sid \in Targets : getCurrentlyPlaying(c, sid)
  \/ \E c \in Clients, sid \in Targets : getPlaylist(c, sid)
  \/ \E c \in Clients : getPlaylist_get(c)

SpecGet == Init /\ [][NextGet]_vars

(***************************************************************************)
(* A session in use: client c1 has created session s1 and claimed it with  *)
(* playlist p1 and the default settings, and the Relay has both events.    *)
(***************************************************************************)
ClaimedRow ==
  [user_id |-> "u1", playlist |-> "p1", currently_playing |-> Null,
   settings |-> DEFAULT_SETTINGS]

InUse ==
  /\ session = [sid \in SessionIds |-> IF sid = "s1" THEN ClaimedRow
                                        ELSE NoRow]
  /\ allocated = {"s1"}
  /\ users = [pid \in PlaylistIds |-> <<Username("u1")>>]
  /\ song = << >>
  /\ relay = [sid \in SessionIds |->
                IF sid = "s1"
                THEN <<Body("s1", EventTypes.SESSION_CREATED,
                            EMPTY_EVENT_DATA),
                       Body("s1", EventTypes.SESSION_CREATED,
                            [settings |-> DEFAULT_SETTINGS])>>
                ELSE << >>]
  /\ sessionId = [c \in Clients |-> IF c = "c1" THEN "s1" ELSE Undefined]
  /\ pc = [c \in Clients |-> Idle]
  /\ result = [c \in Clients |->
                 IF c = "c1"
                 THEN [n |-> 2, op |-> "claim",
                       call |-> [op |-> "claim", sid |-> "s1",
                                 playlistId |-> "p1",
                                 settings |-> DEFAULT_SETTINGS],
                       outcome |-> "ok", published |-> 0]
                 ELSE NoResult]
  /\ inflight = {}
  /\ failedPublish = [c \in Clients |-> 0]
  /\ stream = [c \in Clients |-> NoStream]
  /\ observed = [c \in Clients |-> << >>]

InitActive == InUse /\ budget = MaxCalls /\ faults = MaxFaults

NextActive ==
  \/ \E c \in Clients, pid \in ClaimPlaylists, sid \in Targets,
        st \in Settings : claim(c, pid, sid, st)
  \/ \E c \in Clients, sid \in Targets : join(c, sid)
  \/ \E c \in Clients : join_rpc(c)
  \/ \E c \in Clients : join_notify(c)
  \/ \E c \in Clients, sid \in Targets : remove(c, sid)
  \/ \E c \in Clients : remove_notify(c)
  \/ \E c \in Clients, sid \in Targets, st \in Settings :
        updateSettings(c, sid, st)
  \/ \E c \in Clients : updateSettings_notify(c)
  \/ \E c \in Clients, u \in Users, sid \in Targets : setUser(c, u, sid)
  \/ \E c \in Clients : setUser_update(c)

SpecActive == InitActive /\ [][NextActive]_vars

(***************************************************************************)
(* A session in use, with the call that sets its song.                     *)
(***************************************************************************)
NextLife ==
  \/ NextActive
  \/ \E c \in Clients, sid \in Targets, s \in CurrentSongs :
        setCurrentlyPlaying(c, sid, s)

SpecLife == InitActive /\ [][NextLife]_vars

(***************************************************************************)
(* The songs and contributors of a session in use.                         *)
(***************************************************************************)
InitSong == InUse /\ budget = MaxCallsAll /\ faults = MaxFaults

NextSong ==
  \/ \E c \in Clients, sid \in Targets : setSessionId(c, sid)
  \/ \E c \in Clients, pid \in SongPlaylists, u \in Users :
        addUser(c, pid, u)
  \/ \E c \in Clients : addUser_notify(c)
  \/ \E c \in Clients, pid \in SongPlaylists : resetPlaylist(c, pid)
  \/ \E c \in Clients : resetPlaylist_notify(c)
  \/ \E c \in Clients, s \in YoutubeSongs, sid \in Targets :
        createYoutube(c, s, sid)
  \/ \E c \in Clients, s \in SpotifySongs, sid \in Targets :
        createSpotify(c, s, sid)
  \/ \E c \in Clients : createSong_addUser_notify(c)
  \/ \E c \in Clients : createSong_alreadyContains(c)
  \/ \E c \in Clients : createSong_insert(c)
  \/ \E c \in Clients : createSong_notify(c)
  \/ \E c \in Clients, songId \in 1..MaxSongs, sid \in Targets :
        delete(c, songId, sid)
  \/ \E c \in Clients : delete_notify(c)

SpecSong == InitSong /\ [][NextSong]_vars

(***************************************************************************)
(* A session in use whose playlist holds a song: after InUse client c1     *)
(* has added a YouTube song for user u1 to playlist p1.                    *)
(***************************************************************************)
FirstSong ==
  [ songType |-> SongEnum.YOUTUBE, platformId |-> "x", addedBy |-> "u1",
    playlistId |-> "p1", title |-> "title" ]

\* ... and client c2 has then called incrmentPlayCount for it k times
Played(k) ==
  /\ session = [sid \in SessionIds |-> IF sid = "s1" THEN ClaimedRow
                                        ELSE NoRow]
  /\ allocated = {"s1"}
  /\ users = [pid \in PlaylistIds |->
                IF pid = "p1" THEN <<Username("u1"), "u1">>
                ELSE <<Username("u1")>>]
  /\ song = <<[InsertedRow(FirstSong) EXCEPT !.play_count = k]>>
  /\ relay = [sid \in SessionIds |->
                IF sid = "s1"
                THEN <<Body("s1", EventTypes.SESSION_CREATED,
                            EMPTY_EVENT_DATA),
                       Body("s1", EventTypes.SESSION_CREATED,
                            [settings |-> DEFAULT_SETTINGS]),
                       Body("s1", EventTypes.SESSION_REMOVED,
                            [error |-> FALSE, user |-> "u1"]),
                       Body("s1", EventTypes.YOUTUBE_SONG_ADDED,
                            [error |-> FALSE, song |-> FirstSong])>>
                ELSE << >>]
  /\ sessionId = [c \in Clients |-> IF c = "c1" THEN "s1" ELSE Undefined]
  /\ pc = [c \in Clients |-> Idle]
  /\ result = [c \in Clients |->
                 IF c = "c1"
                 THEN [n |-> 3, op |-> "createSong",
                       call |-> [op |-> "createSong", song |-> FirstSong,
                                 sid |-> "s1"],
                       outcome |-> "ok", published |-> 2]
                 ELSE IF k = 0 THEN NoResult
                 ELSE [n |-> k, op |-> "incrmentPlayCount",
                       call |-> [op |-> "incrmentPlayCount", songId |-> 1],
                       outcome |-> "ok", published |-> 0]]
  /\ inflight = {}
  /\ failedPublish = [c \in Clients |-> 0]
  /\ stream = [c \in Clients |-> NoStream]
  /\ observed = [c \in Clients |-> << >>]

Stocked == Played(0)

InitPlay == Stocked /\ budget = MaxCallsAll /\ faults = MaxFaults

NextPlay ==
  \/ NextSong
  \/ \E c \in Clients, songId \in 1..MaxSongs : incrmentPlayCount(c, songId)
  \/ \E c \in Clients, songId \in 1..MaxSongs, pid \in SongPlaylists :
        resetSong(c, songId, pid)

SpecPlay == InitPlay /\ [][NextPlay]_vars

(***************************************************************************)
(* Choosing songs while songs are added, removed and played.               *)
(***************************************************************************)
MaxPlays == 4

InitQueue ==
  /\ \E k \in 0..MaxPlays : Played(k)
  /\ budget = MaxCallsAll
  /\ faults = MaxFaults

NextQueue ==
  \/ \E c \in Clients, s \in YoutubeSongs, sid \in Targets :
        createYoutube(c, s, sid)
  \/ \E c \in Clients, s \in SpotifySongs, sid \in Targets :
        createSpotify(c, s, sid)
  \/ \E c \in Clients : createSong_addUser_notify(c)
  \/ \E c \in Clients : createSong_alreadyContains(c)
  \/ \E c \in Clients : createSong_insert(c)
  \/ \E c \in Clients : createSong_notify(c)
  \/ \E c \in Clients, songId \in 1..MaxSongs, sid \in Targets :
        delete(c, songId, sid)
  \/ \E c \in Clients : delete_notify(c)
  \/ \E c \in Clients, songId \in 1..MaxSongs : incrmentPlayCount(c, songId)
  \/ \E c \in Clients, pid \in SongPlaylists, strategy \in QueueAlgorithms :
        selectNext(c, pid, strategy)
  \/ \E c \in Clients : selectNext_pick(c)

SpecQueue == InitQueue /\ [][NextQueue]_vars

\* the classic strategy while songs are added; the loop of a selection
\* runs without waiting for anything, so it goes on as long as it can
NextClassic ==
  \/ \E c \in Clients, s \in YoutubeSongs, sid \in Targets :
        createYoutube(c, s, sid)
  \/ \E c \in Clients, s \in SpotifySongs, sid \in Targets :
        createSpotify(c, s, sid)
  \/ \E c \in Clients : createSong_addUser_notify(c)
  \/ \E c \in Clients : createSong_alreadyContains(c)
  \/ \E c \in Clients : createSong_insert(c)
  \/ \E c \in Clients : createSong_notify(c)
  \/ \E c \in Clients, pid \in SongPlaylists : selectNext(c, pid, "classic")
  \/ \E c \in Clients : selectNext_pick(c)

SpecClassic ==
  /\ InitQueue
  /\ [][NextClassic]_vars
  /\ \A c \in Clients : WF_vars(selectNext_pick(c))

(***************************************************************************)
(* Choosing songs while songs are added, played and reset.                 *)
(***************************************************************************)
NextCandidates ==
  \/ \E c \in Clients, s \in YoutubeSongs, sid \in Targets :
        createYoutube(c, s, sid)
  \/ \E c \in Clients, s \in SpotifySongs, sid \in Targets :
        createSpotify(c, s, sid)
  \/ \E c \in Clients : createSong_addUser_notify(c)
  \/ \E c \in Clients : createSong_alreadyContains(c)
  \/ \E c \in Clients : createSong_insert(c)
  \/ \E c \in Clients : createSong_notify(c)
  \/ \E c \in Clients, songId \in 1..MaxSongs : incrmentPlayCount(c, songId)
  \/ \E c \in Clients, pid \in SongPlaylists : resetPlaylist(c, pid)
  \/ \E c \in Clients : resetPlaylist_notify(c)
  \/ \E c \in Clients, songId \in 1..MaxSongs, pid \in SongPlaylists :
        resetSong(c, songId, pid)
  \/ \E c \in Clients, pid \in SongPlaylists, strategy \in QueueAlgorithms :
        selectNext(c, pid, strategy)
  \/ \E c \in Clients : selectNext_pick(c)

SpecCandidates == InitQueue /\ [][NextCandidates]_vars

(***************************************************************************)
(* The songs of a session that plays one of them.                          *)
(***************************************************************************)
NextReset ==
  \/ NextPlay
  \/ \E c \in Clients, sid \in Targets, s \in CurrentSongs :
        setCurrentlyPlaying(c, sid, s)

SpecReset == InitQueue /\ [][NextReset]_vars

(***************************************************************************)
(* Every operation that writes the store and then publishes, on a session  *)
(* in use.                                                                 *)
(***************************************************************************)
InitAll == InUse /\ budget = MaxCallsAll /\ faults = MaxFaults

NextAll == NextActive \/ NextSong

SpecAll == InitAll /\ [][NextAll]_vars

(***************************************************************************)
(* Watchers of a session in use, while settings change and users join.     *)
(***************************************************************************)
\* publishing fails in the other models; here every request is served
InitWatch == InUse /\ budget = MaxCallsAll /\ faults = 0

NextWatch ==
  \/ \E c \in Clients, sid \in SessionIds : watch(c, sid)
  \/ \E c \in Clients : message(c)
  \/ \E c \in Clients : close(c)
  \/ \E sid \in Targets : post(sid)
  \/ \E c \in Clients, sid \in Targets, st \in Settings :
        updateSettings(c, sid, st)
  \/ \E c \in Clients : updateSettings_notify(c)
  \/ \E c \in Clients, sid \in Targets : join(c, sid)
  \/ \E c \in Clients : join_rpc(c)
  \/ \E c \in Clients : join_notify(c)

SpecWatch == InitWatch /\ [][NextWatch]_vars

(***************************************************************************)
(* Watchers of the session while its settings change, with the scheduling  *)
(* of the listener: a frame the EventSource has received is dispatched.    *)
(***************************************************************************)
NextDelivery ==
  \/ \E c \in Clients, sid \in Targets : watch(c, sid)
  \/ \E c \in Clients : message(c)
  \/ \E c \in Clients : close(c)
  \/ \E c \in Clients, sid \in Targets :
        updateSettings(c, sid, HostOnlySettings)
  \/ \E c \in Clients : updateSettings_notify(c)

SpecDelivery ==
  /\ InitWatch
  /\ [][NextDelivery]_vars
  /\ \A c \in Clients : WF_vars(message(c))

(***************************************************************************)
(* The earlier addUser on the playlists of a session in use.               *)
(***************************************************************************)
InitLegacy == InUse /\ budget = MaxCalls /\ faults = MaxFaults

NextLegacy ==
  \/ \E c \in Clients, pid \in PlaylistIds, u \in Users :
        legacy_addUser(c, pid, Username(u))
  \/ \E c \in Clients : legacy_addUser_append(c)
  \/ \E c \in Clients : legacy_addUser_update(c)

SpecLegacy == InitLegacy /\ [][NextLegacy]_vars

(***************************************************************************)
(* Properties.                                                             *)
(***************************************************************************)
Returned(c) == result'[c].n # result[c].n

EventsOf(sid, eventType) ==
  {i \in 1..Len(relay[sid]) : relay[sid][i].eventType = eventType}

\* C1: a call that ends with the failure of a store mutation has published
\* no event to the Relay while it ran.
C1_StoreFailurePublishesNothing ==
  \A c \in Clients :
    result[c].outcome = "StoreError" => result[c].published = 0

\* C2: the step at which a publish fails (awaited or not) leaves the store
\* as the mutation before it left it: sessions, contributor lists and songs
\* are not touched.
C2_MutationRetained == [][failedPublish' # failedPublish => store' = store]_vars

C2_Witness ==
  \E c \in Clients :
    /\ result[c].op = "updateSettings"
    /\ result[c].outcome = "RelayUnavailable"
    /\ Exists(result[c].call.sid)
    /\ result[c].call.settings = HostOnlySettings
    /\ session[result[c].call.sid].settings = HostOnlySettings

\* C3: no call whose publish failed has returned success.
C3_PublishFailureSurfaced ==
  \A c \in Clients :
    (result[c].n > 0 /\ failedPublish[c] = result[c].n)
      => result[c].outcome # "ok"

\* C4: a claim returns success only on an Unclaimed session, which then
\* holds the caller as host with the playlist and the settings passed; on
\* an Active session it fails with InvalidTransition and on an id without a
\* row with NotFound (or, either way, with the store's own failure), and a
\* failed claim leaves the session table as it was.
C4_ClaimTransition ==
  [][\A c \in Clients :
       (Returned(c) /\ result'[c].op = "claim") =>
         LET r   == result'[c]
             sid == r.call.sid
         IN
         /\ r.outcome = "ok" =>
              /\ Unclaimed(sid)
              /\ session'[sid] =
                   [user_id |-> AuthUser(c), playlist |-> r.call.playlistId,
                    currently_playing |-> Null, settings |-> r.call.settings]
         /\ Unclaimed(sid) => r.outcome \in {"ok", "StoreError"}
         /\ Active(sid) => r.outcome \in {"InvalidTransition", "StoreError"}
         /\ ~Exists(sid) => r.outcome \in {"NotFound", "StoreError"}
         /\ r.outcome # "ok" => session' = session]_vars

C4_Witness ==
  \E c \in Clients :
    /\ result[c].op = "claim"
    /\ result[c].outcome = "InvalidTransition"
    /\ Active(result[c].call.sid)
    /\ session[result[c].call.sid].user_id # AuthUser(c)

\* a step in which client c's claim of sid returns success
ClaimWins(c, sid) ==
  /\ Returned(c)
  /\ result'[c].op = "claim"
  /\ result'[c].call.sid = sid
  /\ result'[c].outcome = "ok"

\* a step in which client c's setUser writes the host of sid
SetUserWrites(c, sid) ==
  /\ pc[c].op = "setUser" /\ pc[c].at = "update"
  /\ pc[c].call.sid = sid
  /\ session'[sid].user_id = pc[c].call.user

\* C5 as stated: a claim wins only on an Unclaimed session, and the host of
\* an Active session is never replaced.
C5_HostNeverReplaced ==
  [][\A sid \in SessionIds :
       /\ \A c \in Clients : ClaimWins(c, sid) => Unclaimed(sid)
       /\ (Active(sid) /\ session'[sid] # NoRow)
            => session'[sid].user_id = session[sid].user_id]_vars

\* C5 as amended: a claim wins only on an Unclaimed session and makes its
\* caller the host, so of two claims of one session one wins; a session
\* never goes back to Unclaimed; and the single host a row holds changes
\* only when a claim wins or when setUser writes it.
C5_HostSetByClaimOrSetUser ==
  [][\A sid \in SessionIds :
       /\ \A c \in Clients :
            ClaimWins(c, sid) =>
              Unclaimed(sid) /\ session'[sid].user_id = AuthUser(c)
       /\ Active(sid) => ~Unclaimed(sid)'
       /\ (Exists(sid) /\ session'[sid] # NoRow
             /\ session'[sid].user_id # session[sid].user_id)
            => \E c \in Clients : ClaimWins(c, sid) \/ SetUserWrites(c, sid)
    ]_vars

C5_Witness ==
  \E c, d \in Clients :
    /\ c # d
    /\ result[c].op = "claim" /\ result[c].outcome = "ok"
    /\ result[d].op = "claim" /\ result[d].outcome = "InvalidTransition"
    /\ result[d].call.sid = result[c].call.sid
    /\ session[result[c].call.sid] # NoRow
    /\ session[result[c].call.sid].user_id = AuthUser(c)

\* C6: once a successful claim and the POST it started are over, the Relay
\* holds exactly one SESSION_CREATED event of the session that carries the
\* settings passed to the claim.
C6_ClaimPublishesOnce ==
  \A c \in Clients :
    (/\ result[c].op = "claim"
     /\ result[c].outcome = "ok"
     /\ \A p \in inflight : p.client # c)
      => Count(relay[result[c].call.sid],
               Body(result[c].call.sid, EventTypes.SESSION_CREATED,
                    [settings |-> result[c].call.settings])) = 1

\* C7: a remove of a session that was removed before ends at its delete
\* with NotFound: it never goes on to publish SESSION_REMOVED.
C7_RemoveOfRemovedFails ==
  [][\A c \in Clients :
       (IsIdle(c) /\ pc'[c].op = "remove") => ~Removed(pc'[c].call.sid)]_vars

C10_JoinNeedsActive ==
  \A sid \in SessionIds :
    Unclaimed(sid) => EventsOf(sid, EventTypes.NEW_USER) = {}

\* a step in which client c starts a call of operation op
Starts(c, op) ==
  /\ IsIdle(c)
  /\ budget' < budget
  /\ \/ pc'[c].op = op
     \/ Returned(c) /\ result'[c].op = op

\* the arguments of the call client c starts in this step
Started(c) == IF Returned(c) THEN result'[c].call ELSE pc'[c].call

\* C11: every event in the Relay that tells of a user added to the
\* contributors (its data carries a user) is of the kind NEW_USER.
C11_ContributorEventIsNewUser ==
  \A sid \in SessionIds : \A i \in 1..Len(relay[sid]) :
    "user" \in DOMAIN relay[sid][i].data.json
      => relay[sid][i].eventType = EventTypes.NEW_USER

\* the playlist of song s holds a song of the kind and platform id of s
Present(s) ==
  \E i \in SongsOf(s.playlistId) :
    /\ song[i].song_type = s.songType
    /\ song[i].platform_id = s.platformId

\* C12: when an add reaches its duplicate test, it fails with DuplicateSong
\* and leaves the song table alone if the playlist holds a song of the same
\* kind and platform id, and it does not fail with DuplicateSong if it
\* holds none.
C12_DuplicateGuard ==
  [][\A c \in Clients :
       (pc[c].op = "createSong" /\ pc[c].at = "contains" /\ pc'[c] # pc[c])
         => IF Present(pc[c].call.song)
            THEN /\ Returned(c)
                 /\ result'[c].outcome = "DuplicateSong"
                 /\ song' = song
            ELSE ~(Returned(c) /\ result'[c].outcome = "DuplicateSong")]_vars

\* C13: a call that ended with DuplicateSong has published nothing.
C13_DuplicatePublishesNothing ==
  \A c \in Clients :
    result[c].outcome = "DuplicateSong" => result[c].published = 0

\* C14: no playlist holds two songs of the same kind and platform id.
C14_NoTwoEqualSongs ==
  \A i, j \in SongIds :
    (/\ i # j
     /\ song[i] # NoRow /\ song[j] # NoRow
     /\ song[i].playlist = song[j].playlist
     /\ song[i].song_type = song[j].song_type)
      => song[i].platform_id # song[j].platform_id

\* C15: a call that ends with DuplicateSong has written nothing: the
\* contributor list is as it was when the call began.
C15_ValidationBeforeMutation ==
  [][\A c \in Clients :
       (Returned(c) /\ result'[c].outcome = "DuplicateSong")
         => ~pc[c].locals.appended /\ store' = store]_vars

\* C17: a resetPlaylist that returns success has published, as its only
\* event, PLAYLIST_FINISHED to its session.
C17_ResetPublishesPlaylistFinished ==
  [][\A c \in Clients :
       (Returned(c) /\ result'[c].op = "resetPlaylist"
          /\ result'[c].outcome = "ok")
         => /\ result'[c].published = 1
            /\ relay' = Received(pc[c].locals.sessionId,
                                 EventTypes.PLAYLIST_FINISHED,
                                 EMPTY_EVENT_DATA)]_vars

\* C18: an updateSettings call of a user who is not the host of the Active
\* session ends at once with PermissionDenied and leaves the session table
\* alone.
C18_UpdateSettingsHostOnly ==
  [][\A c \in Clients :
       (/\ Starts(c, "updateSettings")
        /\ Active(Started(c).sid)
        /\ session[Started(c).sid].user_id # AuthUser(c))
         => /\ Returned(c)
            /\ result'[c].outcome = "PermissionDenied"
            /\ session' = session]_vars

\* C19: an add by a user who is not the host, started while the settings of
\* the Active session say anyoneCanAddToQueue = false, ends at once with
\* PermissionDenied.
C19_AddNeedsPermission ==
  [][\A c \in Clients :
       (/\ Starts(c, "createSong")
        /\ Active(Started(c).sid)
        /\ ~session[Started(c).sid].settings.anyoneCanAddToQueue
        /\ session[Started(c).sid].user_id
             \notin {AuthUser(c), Started(c).song.addedBy})
         => /\ Returned(c)
            /\ result'[c].outcome = "PermissionDenied"]_vars

\* the kind of the event that tells of song s
SongAdded(s) ==
  IF s.songType = SongEnum.YOUTUBE THEN EventTypes.YOUTUBE_SONG_ADDED
  ELSE EventTypes.SPOTIFY_SONG_ADDED

\* C16: an add inserts, in one step before its last, exactly one row that
\* holds the song with play_count 0; when it returns success its adder is
\* in the contributors of the playlist and the Relay takes, as the second
\* and last event of the call, the event of the song's kind with the song
\* as payload.  A delete removes, in its first step, the row of its id,
\* and when it returns success the Relay takes, as the only event of the
\* call, SONG_REMOVED with that id.
C16_AddAndRemoveSong ==
  [][\A c \in Clients :
       /\ (pc'[c].op = "createSong" /\ pc'[c].at = "notify"
             /\ pc[c].at # "notify")
            => LET s == pc'[c].call.song IN
               /\ pc[c].op = "createSong" /\ pc[c].at = "insert"
               /\ Len(song') = Len(song) + 1
               /\ SubSeq(song', 1, Len(song)) = song
               /\ song'[Len(song')] =
                    [ play_count |-> 0, added_by |-> s.addedBy,
                      song_type |-> s.songType, platform_id |-> s.platformId,
                      playlist |-> s.playlistId, title |-> s.title ]
       /\ (Returned(c) /\ result'[c].op = "createSong"
             /\ result'[c].outcome = "ok")
            => LET s == result'[c].call.song IN
               /\ pc[c].op = "createSong" /\ pc[c].at = "notify"
               /\ s.addedBy \in Range(users[s.playlistId])
               /\ store' = store
               /\ result'[c].published = 2
               /\ relay' = Received(result'[c].call.sid, SongAdded(s),
                                    [error |-> FALSE, song |-> s])
       /\ (Starts(c, "delete") /\ ~Returned(c))
            => LET id == pc'[c].call.songId IN
               /\ Len(song') = Len(song)
               /\ \A i \in SongIds :
                    song'[i] = IF i = id THEN NoRow ELSE song[i]
       /\ (Returned(c) /\ result'[c].op = "delete"
             /\ result'[c].outcome = "ok")
            => LET id == result'[c].call.songId IN
               /\ pc[c].op = "delete" /\ pc[c].at = "notify"
               /\ store' = store
               /\ result'[c].published = 1
               /\ relay' = Received(result'[c].call.sid,
                                    EventTypes.SONG_REMOVED,
                                    [error |-> FALSE, songId |-> id])]_vars

C16_Witness ==
  \E c, d \in Clients :
    /\ result[c].op = "createSong" /\ result[c].outcome = "ok"
    /\ result[c].call.song.songType = SongEnum.SPOTIFY
    /\ result[d].op = "delete" /\ result[d].outcome = "ok"
    /\ result[d].call.songId \in SongIds
    /\ song[result[d].call.songId] = NoRow

\* C20: every event a watch callback was handed has the session and the
\* kind of the event the Relay was posted, and as its data the payload
\* object that was passed to notifyEvent.
C20_EventRoundTrip ==
  \A c \in Clients : \A k \in 1..Len(observed[c]) :
    LET e == observed[c][k]
        b == relay[e.session][e.date]
    IN
    /\ e.session = b.session
    /\ e.eventType = b.eventType
    /\ e.data = Parse(b.data)

IsPrefix(s, t) == Len(s) <= Len(t) /\ SubSeq(t, 1, Len(s)) = s

\* C21: the events a client's callback was handed are events of the
\* Relay's log, and those of one session were handed over in the order of
\* the log, none twice.
C21_RelayOrder ==
  \A c \in Clients : \A k \in 1..Len(observed[c]) :
    LET e == observed[c][k] IN
    /\ e.date \in 1..Len(relay[e.session])
    /\ e = Parse(Frame(e.session, e.date))
    /\ \A l \in 1..Len(observed[c]) :
         (k < l /\ observed[c][l].session = e.session)
           => e.date < observed[c][l].date

C21_Witness ==
  \E c, d \in Clients :
    /\ c # d
    /\ Len(observed[c]) >= 2
    /\ observed[c] = observed[d]

\* the callback of client c was handed the i-th event of session sid
Delivered(c, sid, i) ==
  \E k \in 1..Len(observed[c]) :
    observed[c][k].session = sid /\ observed[c][k].date = i

\* the most events a session's log holds
MaxLog == MaxCallsAll + 2

\* C22: an event the Relay received while a client's stream of the session
\* was open is handed to that client's callback, unless the client closes
\* the stream.
C22_Delivery ==
  \A c \in Clients : \A sid \in Targets : \A i \in 1..MaxLog :
    (/\ stream[c].open
     /\ stream[c].sid = sid
     /\ stream[c].next <= i
     /\ i <= Len(relay[sid]))
      ~> (Delivered(c, sid, i) \/ ~stream[c].open)

C22_Witness ==
  \E c \in Clients :
    /\ result[c].op = "updateSettings" /\ result[c].outcome = "ok"
    /\ stream[c].open
    /\ \E k \in 1..Len(observed[c]) :
         /\ observed[c][k].eventType = EventTypes.SESSION_SETTINGS_CHANGED
         /\ observed[c][k].date = Len(relay[result[c].call.sid])

\* C23: the events handed over stay handed over; when a stream is closed
\* nothing is handed over at that step or while it stays closed, and a
\* closed stream changes only when watch opens a new one.
C23_Cancel ==
  [][\A c \in Clients :
       /\ IsPrefix(observed[c], observed'[c])
       /\ (stream[c].open /\ ~stream'[c].open) => observed' = observed
       /\ (stream[c] # NoStream /\ ~stream[c].open)
            => /\ observed'[c] = observed[c]
               /\ stream'[c] = stream[c] \/ stream'[c].open]_vars

C23_Witness ==
  \E c \in Clients :
    /\ stream[c] # NoStream
    /\ ~stream[c].open
    /\ Len(observed[c]) >= 1
    /\ stream[c].next <= Len(relay[stream[c].sid])

KnownKinds == {EventTypes[f] : f \in DOMAIN EventTypes}

\* C24: the callback is handed no event of a kind that is not an EventType.
C24_UnknownKindDropped ==
  \A c \in Clients : \A k \in 1..Len(observed[c]) :
    observed[c][k].eventType \in KnownKinds

\* C25: a new that returns success has published SESSION_CREATED to the id
\* of the row new_session made, and the value it returns is that id.
C25_NewReturnsItsId ==
  [][\A c \in Clients :
       (Returned(c) /\ result'[c].op = "new" /\ result'[c].outcome = "ok")
         => /\ relay' = Received(pc[c].locals.id, EventTypes.SESSION_CREATED,
                                 EMPTY_EVENT_DATA)
            /\ result'[c].published = 1
            /\ new_returns(pc[c].locals.data) = Str(pc[c].locals.id)]_vars

\* the outcomes of a read whose answer is `found`
ReadOutcomes(found) ==
  IF found THEN {"ok", "StoreError"} ELSE {"NotFound", "StoreError"}

NoDuplicates(list) ==
  \A i, j \in 1..Len(list) : list[i] = list[j] => i = j

C28_PlayCount ==
  [][/\ \A c \in Clients :
          (Starts(c, "incrmentPlayCount") /\ result'[c].outcome = "ok")
            => \A i \in SongIds :
                 song[i] # NoRow
                   => song'[i] =
                        [song[i] EXCEPT
                           !.play_count =
                             IF i = Started(c).songId THEN @ + 1 ELSE @]
     /\ \A c \in Clients :
          (Starts(c, "resetSong") /\ result'[c].outcome = "ok")
            => \A i \in SongsOf(Started(c).playlistId) :
                 i = Started(c).songId => song'[i].play_count = 0
     /\ \A c \in Clients :
          (/\ Starts(c, "resetPlaylist")
           /\ ~(Returned(c) /\ result'[c].outcome = "StoreError"))
            => \A i \in SongsOf(Started(c).playlistId) :
                 song'[i].play_count = 0
     /\ \A i \in SongIds :
          (/\ song[i] # NoRow /\ song'[i] # NoRow
           /\ song'[i].play_count # song[i].play_count)
            => \E c \in Clients :
                 \/ /\ Starts(c, "incrmentPlayCount")
                    /\ Started(c).songId = i
                    /\ song'[i].play_count = song[i].play_count + 1
                 \/ /\ Starts(c, "resetSong")
                    /\ Started(c).songId = i
                    /\ song'[i].play_count = 0
                 \/ /\ Starts(c, "resetPlaylist")
                    /\ Started(c).playlistId = song[i].playlist
                    /\ song'[i].play_count = 0]_vars

C28_Witness ==
  /\ \A c \in Clients :
       /\ result[c].op = "incrmentPlayCount" /\ result[c].outcome = "ok"
       /\ result[c].call.songId = 1
  /\ song[1] # NoRow /\ song[1].play_count = 2

C31_CandidateSet ==
  [][\A pid \in SongPlaylists :
       /\ \A c \in Clients :
            (/\ Starts(c, "selectNext") /\ ~Returned(c)
             /\ Started(c).playlistId = pid)
              => DOMAIN pc'[c].locals.songs =
                   {i \in SongsOf(pid) : song[i].play_count < 3}
       /\ \A i \in SongsOf(pid) :
            (/\ song[i].play_count >= 3
             /\ i \in getSongsNotPlayedEnough(pid)')
              => \E c \in Clients :
                   \/ Starts(c, "resetSong") /\ Started(c).songId = i
                   \/ Starts(c, "resetPlaylist")
       /\ \A c \in Clients :
            (/\ Starts(c, "resetPlaylist")
             /\ Started(c).playlistId = pid
             /\ ~(Returned(c) /\ result'[c].outcome = "StoreError"))
              => getSongsNotPlayedEnough(pid)' = SongsOf(pid)]_vars

C31_Witness ==
  /\ result["c2"].op = "incrmentPlayCount" /\ result["c2"].n >= 3
  /\ result["c1"].op = "resetPlaylist" /\ result["c1"].outcome = "ok"
  /\ song[1] # NoRow
  /\ 1 \in getSongsNotPlayedEnough("p1")

\* C32: once a session is removed, a claim, join, updateSettings or
\* setCurrentlyPlaying on its id fails at once and leaves the store as it
\* is, and the Relay takes no event for the id other than the one
\* SESSION_REMOVED of its removal.
C32_RemovedIsTerminal ==
  [][\A sid \in SessionIds :
       Removed(sid)
         => /\ \A c \in Clients :
                 (\/ /\ \/ Starts(c, "claim")
                        \/ Starts(c, "join")
                        \/ Starts(c, "updateSettings")
                     /\ Started(c).sid = sid
                  \/ /\ Starts(c, "setCurrentlyPlaying")
                     /\ Effective(c, Started(c).sid) = sid)
                   => /\ Returned(c)
                      /\ result'[c].outcome # "ok"
                      /\ store' = store
            /\ relay'[sid] # relay[sid]
                 => /\ relay'[sid][Len(relay'[sid])].eventType
                         = EventTypes.SESSION_REMOVED
                    /\ Cardinality({i \in 1..Len(relay'[sid]) :
                                      relay'[sid][i].eventType
                                        = EventTypes.SESSION_REMOVED}) = 1]_vars

\* C33: a session that holds a currently playing song is Active.
C33_PlayingOnlyWhenActive ==
  \A sid \in SessionIds :
    (Exists(sid) /\ session[sid].currently_playing # Null) => Active(sid)

\* C34: the steps of a resetPlaylist call leave the session table and the
\* contributor lists as they are, and change of the song table nothing
\* but the play counts of rows.
C34_ResetFrame ==
  [][\A c \in Clients :
       (\/ Starts(c, "resetPlaylist")
        \/ pc[c].op = "resetPlaylist" /\ pc'[c] # pc[c])
         => /\ session' = session
            /\ users' = users
            /\ Len(song') = Len(song)
            /\ \A i \in SongIds :
                 IF song[i] = NoRow THEN song'[i] = NoRow
                 ELSE /\ song'[i] # NoRow
                      /\ song'[i] = [song[i] EXCEPT
                                       !.play_count = song'[i].play_count]]_vars

C34_Witness ==
  /\ result["c2"].op = "incrmentPlayCount"
  /\ result["c1"].op = "resetPlaylist" /\ result["c1"].outcome = "ok"
  /\ session["s1"].currently_playing \in CurrentSongs
  /\ song[1] # NoRow /\ song[1].play_count = 0

\* the settings last announced for a session: the payload of the latest
\* SESSION_SETTINGS_CHANGED event, or the settings of the claim's event
\* when there is none
Announced(sid) ==
  LET changes == EventsOf(sid, EventTypes.SESSION_SETTINGS_CHANGED)
      last    == CHOOSE i \in changes : \A j \in changes : j <= i
  IN  IF changes = {} THEN DEFAULT_SETTINGS
      ELSE Parse(relay[sid][last].data)

\* C35: whenever no updateSettings call is under way, the settings stored
\* for a session are the settings last announced for it on the Relay.
C35_SettingsAnnounced ==
  \A sid \in SessionIds :
    (Exists(sid) /\ \A c \in Clients : pc[c].op # "updateSettings")
      => session[sid].settings = Announced(sid)

\* C36: a client whose current session id is set works on that session
\* whatever id it passes: its remove deletes the row of the current id,
\* its setCurrentlyPlaying writes no other row, and its getters answer for
\* the current id.
C36_CurrentSessionIdUsed ==
  [][\A c \in Clients :
       sessionId[c] # Undefined
         => /\ (/\ Starts(c, "remove")
                /\ ~(Returned(c) /\ result'[c].outcome = "StoreError"))
                 => session' = [session EXCEPT ![sessionId[c]] = NoRow]
            /\ Starts(c, "setCurrentlyPlaying")
                 => \A sid \in SessionIds \ {sessionId[c]} :
                      session'[sid] = session[sid]
            /\ (/\ Starts(c, "getCurrentlyPlaying")
                /\ result'[c].outcome = "ok")
                 => /\ Exists(sessionId[c])
                    /\ result'[c].returned =
                         session[sessionId[c]].currently_playing
            /\ (Starts(c, "getPlaylist") /\ ~Returned(c))
                 => /\ Exists(sessionId[c])
                    /\ pc'[c].locals.playlistId =
                         session[sessionId[c]].playlist]_vars

\* C37: while the event of a client's claim has not reached the Relay, no
\* later call of that client puts an event of its own on the Relay for the
\* session claimed.
C37_ClaimEventFirst ==
  [][\A p \in inflight :
       (p \in inflight' /\ relay'[p.sid] # relay[p.sid])
         => /\ pc'[p.client] = pc[p.client]
            /\ result'[p.client] = result[p.client]]_vars

\* C38: the user who added a stored song is in the contributor list of the
\* song's playlist.
C38_AdderIsContributor ==
  \A i \in SongIds :
    song[i] # NoRow => song[i].added_by \in Range(users[song[i].playlist])

C38_Witness ==
  \E c \in Clients, i \in SongIds :
    /\ result[c].op = "createSong" /\ result[c].outcome = "ok"
    /\ song[i] # NoRow
    /\ song[i].added_by = result[c].call.song.addedBy
    /\ song[i].added_by = "u2"
    /\ Len(users[song[i].playlist]) >= 2

\* C39: a resetPlaylist or addUser call of a client without a current
\* session id, whose store request is served, ends at once with the
\* 'SessionID not set' error, having reset the play counts (resp. with the
\* user in the contributor list) and without an event; and these calls
\* end with that error in no other case.
C39_SessionIdCheckedLate ==
  [][\A c \in Clients :
       /\ (\/ Starts(c, "resetPlaylist") \/ Starts(c, "addUser"))
            => ((Returned(c) /\ result'[c].outcome = "SessionIdNotSet")
                  <=> (/\ sessionId[c] = Undefined
                       /\ ~(Returned(c)
                            /\ result'[c].outcome = "StoreError")))
       /\ (/\ Returned(c)
           /\ result'[c].outcome = "SessionIdNotSet"
           /\ result'[c].op \in {"resetPlaylist", "addUser"})
            => /\ relay' = relay
               /\ result'[c].published = 0
               /\ session' = session
               /\ IF result'[c].op = "resetPlaylist"
                  THEN /\ users' = users
                       /\ \A i \in SongsOf(result'[c].call.playlistId) :
                            song'[i].play_count = 0
                  ELSE /\ song' = song
                       /\ users' =
                            [users EXCEPT
                               ![result'[c].call.playlistId] =
                                 add_user_to_playlist(
                                   @, result'[c].call.user)]]_vars

C39_Witness ==
  \E c, d \in Clients :
    /\ sessionId[d] = Undefined
    /\ result[c].op = "incrmentPlayCount" /\ result[c].outcome = "ok"
    /\ result[c].call.songId = 1
    /\ result[d].op = "resetPlaylist"
    /\ result[d].outcome = "SessionIdNotSet"
    /\ song[1] # NoRow /\ song[1].play_count = 0

====
